---- MODULE Spec2Model ----
(***************************************************************************)
(* A model of powerfit/structure.py: the fixed-width PDB reader            *)
(* (parse_pdb) and writer (tofile), the simplified mmCIF reader            *)
(* (parse_mmcif) and the Structure wrapper (fromfile, duplicate, rotate,   *)
(* translate, combine, rmsd, tofile).                                      *)
(*                                                                         *)
(* Text is modelled as TLA+ strings; a Python slice s[a:b] is Slice(s,a,b).*)
(* Floating point values are modelled as exact integers counting           *)
(* thousandths, which is exact for every text with at most three decimals. *)
(***************************************************************************)
EXTENDS Integers, Sequences, FiniteSets, TLC

VARIABLES
    \* ---- parse_pdb(infile) ----
    infile,        \* the lines of the file being read
    pos,           \* number of lines already consumed by "for line in f"
    fopen,         \* whether the handle f is open
    model_number,  \* parse_pdb's local model_number
    pdb,           \* the columnar table (dict of lists)
    \* ---- tofile(pdb, out) ----
    out,           \* the lines written to the output file so far
    outOpen,       \* whether the output handle is open
    nmodel,        \* loop variable of "for nmodel in range(nmodels)"
    natom,         \* loop variable of "for natom in range(natoms_per_model)"
    prev_chain,    \* tofile's local prev_chain
    pc,            \* position of the codec program
    first,         \* the round trip's first parse: [file, pdb], or NoTable
    \* ---- Structure ----
    structs,       \* Structure instance -> its __prot handle (0: not created)
    prots,         \* prot handle -> its atom list, a sequence of <<x, y, z>>
    disk,          \* the paths of the files that exist as written outputs
    last,          \* the last Structure call and its outcome
    \* ---- parse_mmcif(infile) ----
    cif,           \* the lines of the mmCIF file being read
    cpos,          \* number of lines already consumed
    copen,         \* whether the handle is open
    atom_site,     \* the OrderedDict: a sequence of [key, val] entries
    cpc            \* position of parse_mmcif

codecVars == <<infile, pos, fopen, model_number, pdb, out, outOpen, nmodel,
               natom, prev_chain, pc, first>>
structVars == <<structs, prots, disk, last>>
cifVars == <<cif, cpos, copen, atom_site, cpc>>
vars == <<codecVars, structVars, cifVars>>

-----------------------------------------------------------------------------
\* Text primitives (Python str operations used by the codec)

Min(a, b) == IF a < b THEN a ELSE b
Max(a, b) == IF a > b THEN a ELSE b

\* s[a:b] for 0 <= a <= b: truncated at the end of s, never an error
Slice(s, a, b) == SubSeq(s, a + 1, Min(b, Len(s)))

\* s[i] where it exists (the caller checks i < len(s): Python raises IndexError)
Ch(s, i) == SubSeq(s, i + 1, i + 1)

RECURSIVE Spaces(_)
Spaces(n) == IF n <= 0 THEN "" ELSE " " \o Spaces(n - 1)

RECURSIVE LStrip(_)
LStrip(s) == IF Len(s) > 0 /\ Ch(s, 0) = " " THEN LStrip(SubSeq(s, 2, Len(s))) ELSE s

RECURSIVE RStrip(_)
RStrip(s) ==
    IF Len(s) > 0 /\ Ch(s, Len(s) - 1) = " " THEN RStrip(SubSeq(s, 1, Len(s) - 1)) ELSE s

\* str.strip()
Strip(s) == RStrip(LStrip(s))

DigitChars == {"0", "1", "2", "3", "4", "5", "6", "7", "8", "9"}
DigitString == "0123456789"
DigitVal(c) == CHOOSE d \in 0..9 : Ch(DigitString, d) = c
DigitChar(d) == Ch(DigitString, d)

AlphaChars == {"A", "B", "C", "D", "E", "F", "G", "H", "I", "J", "K", "L", "M",
               "N", "O", "P", "Q", "R", "S", "T", "U", "V", "W", "X", "Y", "Z",
               "a", "b", "c", "d", "e", "f", "g", "h", "i", "j", "k", "l", "m",
               "n", "o", "p", "q", "r", "s", "t", "u", "v", "w", "x", "y", "z"}
\* str.isalpha() on one character
IsAlpha(c) == c \in AlphaChars

RECURSIVE AllDigits(_)
AllDigits(s) ==
    IF Len(s) = 0 THEN TRUE
    ELSE Ch(s, 0) \in DigitChars /\ AllDigits(SubSeq(s, 2, Len(s)))

RECURSIVE NatVal(_)
NatVal(s) ==
    IF Len(s) = 0 THEN 0
    ELSE 10 * NatVal(SubSeq(s, 1, Len(s) - 1)) + DigitVal(Ch(s, Len(s) - 1))

HasSign(t) == Len(t) > 0 /\ Ch(t, 0) \in {"-", "+"}
Unsigned(t) == IF HasSign(t) THEN SubSeq(t, 2, Len(t)) ELSE t
SignOf(t) == IF Len(t) > 0 /\ Ch(t, 0) = "-" THEN -1 ELSE 1

\* int(s) succeeds: optional blanks, optional sign, one or more digits
IsIntText(s) ==
    LET u == Unsigned(Strip(s)) IN Len(u) > 0 /\ AllDigits(u)
\* int(s)
IntVal(s) == LET t == Strip(s) IN SignOf(t) * NatVal(Unsigned(t))

\* position (0-based) of the first "." of s, or Len(s) when there is none
RECURSIVE DotPos(_)
DotPos(s) ==
    IF Len(s) = 0 \/ Ch(s, 0) = "." THEN 0 ELSE 1 + DotPos(SubSeq(s, 2, Len(s)))

IntPart(u) == Slice(u, 0, DotPos(u))
FracPart(u) == SubSeq(u, DotPos(u) + 2, Len(u))

\* float(s) succeeds, for the decimal notation (digits, optional point, digits)
IsFloatText(s) ==
    LET u == Unsigned(Strip(s)) IN
    /\ AllDigits(IntPart(u))
    /\ AllDigits(FracPart(u))
    /\ Len(IntPart(u)) + Len(FracPart(u)) > 0
\* float(s), in thousandths (exact when s has at most three decimals; the
\* exponent notation, inf, nan and the sign of zero are outside the model)
FloatVal(s) ==
    LET t == Strip(s)
        u == Unsigned(t)
        f == Slice(FracPart(u) \o "000", 0, 3)
    IN SignOf(t) * (1000 * NatVal(IntPart(u)) + NatVal(f))

RECURSIVE NatText(_)
NatText(n) ==
    IF n < 10 THEN DigitChar(n) ELSE NatText(n \div 10) \o DigitChar(n % 10)

\* str(n) for an integer n
IntText(n) == IF n < 0 THEN "-" \o NatText(-n) ELSE NatText(n)

\* '{:>w}': right-justified, never truncated
PadLeft(s, w) == Spaces(w - Len(s)) \o s
\* '{:w}' for a string: left-justified, never truncated
PadRight(s, w) == s \o Spaces(w - Len(s))

\* '{:>wd}'.format(n)
FmtD(n, w) == PadLeft(IntText(n), w)
\* '{:ws}'.format(s)
FmtS(s, w) == PadRight(s, w)
\* '{:8.3f}'.format(v), v in thousandths
FmtF3(v) ==
    LET a == IF v < 0 THEN -v ELSE v
        body == NatText(a \div 1000) \o "."
                \o DigitChar((a \div 100) % 10) \o DigitChar((a \div 10) % 10)
                \o DigitChar(a % 10)
    IN PadLeft((IF v < 0 THEN "-" ELSE "") \o body, 8)
\* '{:6.2f}'.format(v), v in thousandths: rounded half to even to hundredths
FmtF2(v) ==
    LET a == IF v < 0 THEN -v ELSE v
        q == a \div 10
        r == a % 10
        h == IF r > 5 \/ (r = 5 /\ q % 2 = 1) THEN q + 1 ELSE q
        body == NatText(h \div 100) \o "." \o DigitChar((h \div 10) % 10)
                \o DigitChar(h % 10)
    IN PadLeft((IF v < 0 THEN "-" ELSE "") \o body, 6)

-----------------------------------------------------------------------------
\* Record tags and line layouts (structure.py, lines 35-52)

MODEL == "MODEL "
ATOM == "ATOM  "
HETATM == "HETATM"
TER == "TER   "

\* MODEL_LINE.format(n)
MODEL_LINE(n) == "MODEL " \o Spaces(4) \o FmtD(n, 4)
ENDMDL_LINE == "ENDMDL"
END_LINE == "END   "
\* TER_LINE.format(id, resn, chain, resi, i)
TER_LINE(id, resn, chain, resi, i) ==
    "TER   " \o FmtD(id, 5) \o Spaces(6) \o FmtS(resn, 3) \o " " \o FmtS(chain, 1)
    \o FmtD(resi, 4) \o FmtS(i, 1) \o Spaces(53)
\* ATOM_LINE.format(*line_data), line_data in ATOM_DATA order
ATOM_LINE(record, id, name, alt, resn, chain, resi, i, x, y, z, q, b, e, charge) ==
    FmtS(record, 6) \o FmtD(id, 5) \o " " \o FmtS(name, 4) \o FmtS(alt, 1)
    \o FmtS(resn, 3) \o " " \o FmtS(chain, 1) \o FmtD(resi, 4) \o FmtS(i, 1)
    \o Spaces(3) \o FmtF3(x) \o FmtF3(y) \o FmtF3(z) \o FmtF2(q) \o FmtF2(b)
    \o Spaces(10) \o FmtS(e, 2) \o FmtS(charge, 2)

\* pdb = defaultdict(list): every column starts as the empty list
EmptyTable ==
    [model |-> <<>>, record |-> <<>>, id |-> <<>>, name |-> <<>>, alt |-> <<>>,
     resn |-> <<>>, chain |-> <<>>, resi |-> <<>>, i |-> <<>>, x |-> <<>>,
     y |-> <<>>, z |-> <<>>, q |-> <<>>, b |-> <<>>, e |-> <<>>, charge |-> <<>>]

NoTable == [file |-> <<>>, pdb |-> EmptyTable, set |-> FALSE]

-----------------------------------------------------------------------------
\* parse_pdb

\* the element fallback: "for e in name: if e.isalpha(): break" leaves e at the
\* first alphabetic character, or at the last character when there is none
RECURSIVE ScanName(_)
ScanName(name) ==
    IF Len(name) <= 1 \/ IsAlpha(Ch(name, 0)) THEN Slice(name, 0, 1)
    ELSE ScanName(SubSeq(name, 2, Len(name)))

ElementOf(line) ==
    LET e == Strip(Slice(line, 76, 78))
        name == Strip(Slice(line, 12, 16))
    IN IF e = "" THEN ScanName(name) ELSE e

\* every conversion and index of the ATOM/HETATM branch succeeds
AtomLineParses(line) ==
    /\ IsIntText(Slice(line, 6, 11))
    /\ Len(line) > 26
    /\ IsIntText(Slice(line, 22, 26))
    /\ IsFloatText(Slice(line, 30, 38))
    /\ IsFloatText(Slice(line, 38, 46))
    /\ IsFloatText(Slice(line, 46, 54))
    /\ IsFloatText(Slice(line, 54, 60))
    /\ IsFloatText(Slice(line, 60, 66))

\* the sixteen appends of the ATOM/HETATM branch
AppendAtom(t, line, mn) ==
    [model  |-> Append(t.model, mn),
     record |-> Append(t.record, Slice(line, 0, 6)),
     id     |-> Append(t.id, IntVal(Slice(line, 6, 11))),
     name   |-> Append(t.name, Strip(Slice(line, 12, 16))),
     alt    |-> Append(t.alt, Ch(line, 16)),
     resn   |-> Append(t.resn, Strip(Slice(line, 17, 20))),
     chain  |-> Append(t.chain, Ch(line, 21)),
     resi   |-> Append(t.resi, IntVal(Slice(line, 22, 26))),
     i      |-> Append(t.i, Ch(line, 26)),
     x      |-> Append(t.x, FloatVal(Slice(line, 30, 38))),
     y      |-> Append(t.y, FloatVal(Slice(line, 38, 46))),
     z      |-> Append(t.z, FloatVal(Slice(line, 46, 54))),
     q      |-> Append(t.q, FloatVal(Slice(line, 54, 60))),
     b      |-> Append(t.b, FloatVal(Slice(line, 60, 66))),
     e      |-> Append(t.e, ElementOf(line)),
     charge |-> Append(t.charge, Strip(Slice(line, 78, 80)))]

\* one iteration of "for line in f".  A failed int()/float() propagates out of
\* parse_pdb: nothing catches it and f.close() is not reached; the partial
\* table is a local that is lost with the frame.
ParseLine ==
    /\ pc = "parse"
    /\ pos < Len(infile)
    /\ LET line == infile[pos + 1]
           record == Slice(line, 0, 6)
       IN IF record \in {ATOM, HETATM}
          THEN IF AtomLineParses(line)
               THEN /\ pdb' = AppendAtom(pdb, line, model_number)
                    /\ UNCHANGED <<model_number, pc>>
               ELSE /\ pc' = "raised"
                    /\ UNCHANGED <<model_number, pdb>>
          ELSE IF record = MODEL
               THEN IF IsIntText(Slice(line, 10, 14))
                    THEN /\ model_number' = IntVal(Slice(line, 10, 14))
                         /\ UNCHANGED <<pdb, pc>>
                    ELSE /\ pc' = "raised"
                         /\ UNCHANGED <<model_number, pdb>>
               ELSE UNCHANGED <<model_number, pdb, pc>>
    /\ pos' = pos + 1
    /\ UNCHANGED <<infile, fopen, out, outOpen, nmodel, natom, prev_chain, first>>
    /\ UNCHANGED <<structVars, cifVars>>

\* the loop is exhausted: f.close(); return pdb
ParseReturn ==
    /\ pc = "parse"
    /\ pos = Len(infile)
    /\ fopen' = FALSE
    /\ pc' = "parsed"
    /\ UNCHANGED <<infile, pos, model_number, pdb, out, outOpen, nmodel, natom,
                   prev_chain, first>>
    /\ UNCHANGED <<structVars, cifVars>>

-----------------------------------------------------------------------------
\* tofile(pdb, out)

Range(s) == {s[k] : k \in 1..Len(s)}

nmodels == Cardinality(Range(pdb.model))
natoms == Len(pdb.id)
\* int(natoms / nmodels), for nmodels > 0
natoms_per_model == natoms \div nmodels
offset == nmodel * natoms_per_model

\* f = open(out, 'w') creates the file; with no atom, natoms / nmodels is 0 / 0
\* and raises ZeroDivisionError, leaving the file empty and the handle open
TofileOpen ==
    /\ pc = "tofile"
    /\ out' = <<>>
    /\ outOpen' = TRUE
    /\ nmodel' = 0
    /\ natom' = 0
    /\ pc' = IF nmodels = 0 THEN "raised" ELSE "model"
    /\ UNCHANGED <<infile, pos, fopen, model_number, pdb, prev_chain, first>>
    /\ UNCHANGED <<structVars, cifVars>>

\* head of an iteration of "for nmodel in range(nmodels)"
ModelBegin ==
    /\ pc = "model"
    /\ nmodel < nmodels
    /\ out' = IF nmodels > 1 THEN Append(out, MODEL_LINE(nmodel + 1)) ELSE out
    /\ prev_chain' = pdb.chain[offset + 1]
    /\ natom' = 0
    /\ pc' = "atom"
    /\ UNCHANGED <<infile, pos, fopen, model_number, pdb, outOpen, nmodel, first>>
    /\ UNCHANGED <<structVars, cifVars>>

\* line_data = [pdb[data][index - 1] for data in TER_DATA]; line_data[0] += 1
TerLineOf(t, index) ==
    TER_LINE(t.id[index] + 1, t.resn[index], t.chain[index], t.resi[index], t.i[index])

\* mutant of NameColumn: the name is padded whatever its length
NameColumnAlwaysPadded(t, index) ==
    IF Len(t.e[index]) = 1 THEN " " \o t.name[index] ELSE t.name[index]

\* the atom name position rule
NameColumn(t, index) ==
    IF Len(t.e[index]) = 1 /\ Len(t.name[index]) # 4
    THEN " " \o t.name[index]
    ELSE t.name[index]

AtomLineOf(t, index) ==
    ATOM_LINE(t.record[index], t.id[index], NameColumn(t, index), t.alt[index],
              t.resn[index], t.chain[index], t.resi[index], t.i[index],
              t.x[index], t.y[index], t.z[index], t.q[index], t.b[index],
              t.e[index], t.charge[index])

\* mutant of TerDue: the record kind of the previous atom is not consulted
TerDueAnyRecord(t, index, prev) == prev # t.chain[index]

\* whether the TER branch is taken for the atom at 1-based position index
TerDue(t, index, prev) ==
    /\ prev # t.chain[index]
    /\ t.record[index - 1] = ATOM

\* one iteration of "for natom in range(natoms_per_model)"
WriteAtom ==
    /\ pc = "atom"
    /\ natom < natoms_per_model
    /\ LET index == offset + natom + 1
           current_chain == pdb.chain[index]
           ter == IF TerDue(pdb, index, prev_chain)
                  THEN <<TerLineOf(pdb, index - 1)>> ELSE <<>>
       IN /\ out' = out \o ter \o <<AtomLineOf(pdb, index)>>
          /\ prev_chain' = IF prev_chain # current_chain
                          THEN current_chain ELSE prev_chain
    /\ natom' = natom + 1
    /\ UNCHANGED <<infile, pos, fopen, model_number, pdb, outOpen, nmodel, pc, first>>
    /\ UNCHANGED <<structVars, cifVars>>

\* mutant of ModelEnd: the ENDMDL record is not written
ModelEndNoEndmdl ==
    /\ pc = "atom"
    /\ natom = natoms_per_model
    /\ nmodel' = nmodel + 1
    /\ pc' = "model"
    /\ UNCHANGED <<infile, pos, fopen, model_number, pdb, out, outOpen, natom,
                   prev_chain, first>>
    /\ UNCHANGED <<structVars, cifVars>>

\* the inner loop is exhausted: write ENDMDL and go to the next model
ModelEnd ==
    /\ pc = "atom"
    /\ natom = natoms_per_model
    /\ out' = IF nmodels > 1 THEN Append(out, ENDMDL_LINE) ELSE out
    /\ nmodel' = nmodel + 1
    /\ pc' = "model"
    /\ UNCHANGED <<infile, pos, fopen, model_number, pdb, outOpen, natom,
                   prev_chain, first>>
    /\ UNCHANGED <<structVars, cifVars>>

\* the outer loop is exhausted: f.write(END_LINE); f.close()
TofileEnd ==
    /\ pc = "model"
    /\ nmodel = nmodels
    /\ out' = Append(out, END_LINE)
    /\ outOpen' = FALSE
    /\ pc' = "done"
    /\ UNCHANGED <<infile, pos, fopen, model_number, pdb, nmodel, natom,
                   prev_chain, first>>
    /\ UNCHANGED <<structVars, cifVars>>

-----------------------------------------------------------------------------
\* Bounds and inputs

MaxAtoms == 4
MaxLines == 3

IdleStructs == /\ structs = <<>> /\ prots = <<>> /\ disk = {} /\ last = <<>>
IdleCif == /\ cif = <<>> /\ cpos = 0 /\ copen = FALSE /\ atom_site = <<>> /\ cpc = "idle"
IdleCodec ==
    /\ infile = <<>> /\ pos = 0 /\ fopen = FALSE /\ model_number = 1
    /\ pdb = EmptyTable /\ out = <<>> /\ outOpen = FALSE /\ nmodel = 0
    /\ natom = 0 /\ prev_chain = "" /\ pc = "idle" /\ first = NoTable

\* the tables handed to tofile: per atom a model number, a record kind and a
\* chain; the other columns are fixed by the atom's position
AtomChoices == [model : {1, 2}, record : {ATOM, HETATM}, chain : {"A", "B"}]

MkTable(cs) ==
    LET n == Len(cs) IN
    [model  |-> [k \in 1..n |-> cs[k].model],
     record |-> [k \in 1..n |-> cs[k].record],
     id     |-> [k \in 1..n |-> 10 * k],
     name   |-> [k \in 1..n |-> IF k % 2 = 1 THEN "CA" ELSE "HD11"],
     alt    |-> [k \in 1..n |-> " "],
     resn   |-> [k \in 1..n |-> IF k % 2 = 1 THEN "ALA" ELSE "GLY"],
     chain  |-> [k \in 1..n |-> cs[k].chain],
     resi   |-> [k \in 1..n |-> 20 + k],
     i      |-> [k \in 1..n |-> IF k % 2 = 1 THEN " " ELSE "B"],
     x      |-> [k \in 1..n |-> 1000 * k + 500],
     y      |-> [k \in 1..n |-> -250 * k],
     z      |-> [k \in 1..n |-> 0],
     q      |-> [k \in 1..n |-> 1000],
     b      |-> [k \in 1..n |-> 12340],
     e      |-> [k \in 1..n |-> IF k % 2 = 1 THEN "C" ELSE "H"],
     charge |-> [k \in 1..n |-> ""]]

WriterTables == {MkTable(cs) : cs \in UNION {[1..n -> AtomChoices] : n \in 0..MaxAtoms}}

InitWriter ==
    /\ infile = <<>> /\ pos = 0 /\ fopen = FALSE /\ model_number = 1
    /\ pdb \in WriterTables
    /\ out = <<>> /\ outOpen = FALSE /\ nmodel = 0 /\ natom = 0
    /\ prev_chain = "" /\ pc = "tofile" /\ first = NoTable
    /\ IdleStructs /\ IdleCif

NextWriter == TofileOpen \/ ModelBegin \/ WriteAtom \/ ModelEnd \/ TofileEnd

SpecWriter == InitWriter /\ [][NextWriter]_vars

\* the text of an ATOM/HETATM line from its raw column contents
RawAtom(record, idf, namef, resnf, chain, resif, xf, ef) ==
    record \o idf \o " " \o namef \o " " \o resnf \o " " \o chain \o resif \o " "
    \o Spaces(3) \o xf \o "   6.134" \o "  -6.504" \o "  1.00" \o " 12.50"
    \o Spaces(10) \o ef \o "  "

InputLines ==
    { RawAtom(ATOM,   "    1", " N  ", "ALA", "A", "   1", "  11.104", " N"),
      RawAtom(ATOM,   "    2", " CA1", "ALA", "A", "   1", "  -0.250", "  "),
      RawAtom(HETATM, "    7", "CA  ", " CA", "B", "  -5", " 100.000", "CA"),
      RawAtom(ATOM,   "   12", "1HB ", "GLY", "B", "  42", "   3.500", "  "),
      RawAtom(ATOM,   "   15", "HD11", "LEU", "B", "  42", "  -3.500", " H"),
      RawAtom(ATOM,   "   13", " 12 ", "UNK", "B", "  43", "   0.001", "  "),
      RawAtom(ATOM,   "  abc", " C  ", "ALA", "A", "   2", "   1.000", " C"),
      RawAtom(ATOM,   "   14", " O  ", "ALA", "A", "   2", "12345.67", " O"),
      MODEL_LINE(2),
      "REMARK" }

InputFiles == UNION {[1..n -> InputLines] : n \in 0..MaxLines}

InitRoundTrip ==
    /\ infile \in InputFiles
    /\ pos = 0 /\ fopen = TRUE /\ model_number = 1 /\ pdb = EmptyTable
    /\ out = <<>> /\ outOpen = FALSE /\ nmodel = 0 /\ natom = 0
    /\ prev_chain = "" /\ pc = "parse" /\ first = NoTable
    /\ IdleStructs /\ IdleCif

\* the round trip's second call: tofile(parse_pdb(infile), out)
RoundTripWrite ==
    /\ pc = "parsed"
    /\ ~first.set
    /\ first' = [file |-> infile, pdb |-> pdb, set |-> TRUE]
    /\ pc' = "tofile"
    /\ UNCHANGED <<infile, pos, fopen, model_number, pdb, out, outOpen, nmodel,
                   natom, prev_chain>>
    /\ UNCHANGED <<structVars, cifVars>>

\* the round trip's third call: parse_pdb(out) opens the written file
RoundTripReread ==
    /\ pc = "done"
    /\ first.set
    /\ infile' = out
    /\ pos' = 0
    /\ fopen' = TRUE
    /\ model_number' = 1
    /\ pdb' = EmptyTable
    /\ pc' = "parse"
    /\ UNCHANGED <<out, outOpen, nmodel, natom, prev_chain, first>>
    /\ UNCHANGED <<structVars, cifVars>>

NextRoundTrip ==
    \/ ParseLine \/ ParseReturn \/ RoundTripWrite
    \/ TofileOpen \/ ModelBegin \/ WriteAtom \/ ModelEnd \/ TofileEnd
    \/ RoundTripReread

SpecRoundTrip == InitRoundTrip /\ [][NextRoundTrip]_vars

-----------------------------------------------------------------------------
\* Properties of the PDB writer

Tag(line) == Slice(line, 0, 6)
IsAtomLine(line) == Tag(line) \in {ATOM, HETATM}

\* the positions in lines of the lines whose tag is in tags, in order
PositionsOf(lines, tags) ==
    SelectSeq([k \in 1..Len(lines) |-> k], LAMBDA k : Tag(lines[k]) \in tags)

AtomPositions(lines) == PositionsOf(lines, {ATOM, HETATM})
AtomLinesOf(lines) == SelectSeq(lines, IsAtomLine)

\* a TER line precedes, immediately, the j-th atom line of the output
TerBefore(j) ==
    LET ap == AtomPositions(out) IN ap[j] > 1 /\ Tag(out[ap[j] - 1]) = TER

\* the TER line before the j-th atom line carries the data of atom j - 1
TerCarries(j) ==
    LET l == out[AtomPositions(out)[j] - 1] IN
    /\ IntVal(Slice(l, 6, 11)) = pdb.id[j - 1] + 1
    /\ Strip(Slice(l, 17, 20)) = pdb.resn[j - 1]
    /\ Ch(l, 21) = pdb.chain[j - 1]
    /\ IntVal(Slice(l, 22, 26)) = pdb.resi[j - 1]
    /\ Ch(l, 26) = pdb.i[j - 1]

\* C1: when tofile has finished, the output holds one atom line per atom of
\* the model blocks, in order; for an atom j that is not the first of its
\* block a TER line stands immediately before its line exactly when
\* chain[j] # chain[j-1] and record[j-1] is ATOM, and that TER line carries
\* id[j-1]+1 and the residue name, chain, residue number and insertion code
\* of atom j-1; there is no TER line before the first atom of a block, and
\* every TER line is immediately followed by an atom line.
C1_TerPlacement ==
    pc = "done" =>
        LET ap == AtomPositions(out) IN
        /\ Len(ap) = nmodels * natoms_per_model
        /\ \A j \in 1..Len(ap) :
              /\ IntVal(Slice(out[ap[j]], 6, 11)) = pdb.id[j]
              /\ IF (j - 1) % natoms_per_model = 0
                 THEN ~TerBefore(j)
                 ELSE /\ TerBefore(j) <=> (/\ pdb.chain[j] # pdb.chain[j - 1]
                                           /\ pdb.record[j - 1] = ATOM)
                      /\ TerBefore(j) => TerCarries(j)
        /\ \A k \in 1..Len(out) :
              Tag(out[k]) = TER => k < Len(out) /\ IsAtomLine(out[k + 1])

\* C1 witness: chains A, A, B of ATOM records in one model give exactly one
\* TER line, the third line of the output, with serial id[2] + 1
C1_Witness ==
    /\ pc = "done"
    /\ nmodels = 1
    /\ pdb.chain = <<"A", "A", "B">>
    /\ pdb.record = <<ATOM, ATOM, ATOM>>
    /\ PositionsOf(out, {TER}) = <<3>>
    /\ IntVal(Slice(out[3], 6, 11)) = pdb.id[2] + 1

\* the table is N equal-sized contiguous blocks in ascending model order
EqualBlocks(t) ==
    LET n == Len(t.id)
        N == Cardinality(Range(t.model))
    IN /\ N >= 1
       /\ n % N = 0
       /\ \A j, k \in 1..n :
             /\ (j - 1) \div (n \div N) = (k - 1) \div (n \div N) => t.model[j] = t.model[k]
             /\ (j - 1) \div (n \div N) < (k - 1) \div (n \div N) => t.model[j] < t.model[k]

\* C2: for a table of N equal-sized contiguous blocks in ascending model
\* order, the finished output holds, when N > 1, N MODEL lines numbered 1..N
\* in order and N ENDMDL lines, the m-th MODEL line before the m-th ENDMDL
\* line and that one before the next MODEL line, every atom line of block m
\* (and no other) between the m-th pair, and nothing but atom and TER lines
\* inside a pair; when N = 1 it holds no MODEL and no ENDMDL line.
C2_ModelBlocks ==
    (pc = "done" /\ EqualBlocks(pdb)) =>
        LET mp == PositionsOf(out, {MODEL})
            ep == PositionsOf(out, {"ENDMDL"})
            ap == AtomPositions(out)
            N == nmodels
            size == natoms \div N
        IN IF N = 1
           THEN mp = <<>> /\ ep = <<>> /\ Len(ap) = natoms
           ELSE /\ Len(mp) = N /\ Len(ep) = N /\ Len(ap) = natoms
                /\ \A m \in 1..N :
                      /\ IsIntText(Slice(out[mp[m]], 10, 14))
                      /\ IntVal(Slice(out[mp[m]], 10, 14)) = m
                      /\ mp[m] < ep[m]
                      /\ m < N => ep[m] < mp[m + 1]
                      /\ \A k \in (mp[m] + 1)..(ep[m] - 1) :
                            Tag(out[k]) \in {ATOM, HETATM, TER}
                /\ \A j \in 1..natoms :
                      LET m == (j - 1) \div size + 1 IN
                      /\ mp[m] < ap[j] /\ ap[j] < ep[m]
                      /\ IntVal(Slice(out[ap[j]], 6, 11)) = pdb.id[j]

\* C2 witness: two blocks of two atoms, written as two MODEL/ENDMDL pairs
C2_Witness ==
    /\ pc = "done"
    /\ EqualBlocks(pdb)
    /\ nmodels = 2
    /\ natoms = 4
    /\ Len(PositionsOf(out, {MODEL})) = 2
    /\ Len(PositionsOf(out, {"ENDMDL"})) = 2

\* C3: whenever tofile has ended, by returning or by raising, the output
\* holds exactly one END line and that line is its last
C3_OneEndLast ==
    pc \in {"done", "raised"} =>
        /\ Len(PositionsOf(out, {END_LINE})) = 1
        /\ Tag(out[Len(out)]) = END_LINE

\* what holds of END: every call that returns has written exactly one END
\* line, the last line of the output
EndWhenReturned ==
    pc = "done" =>
        /\ PositionsOf(out, {END_LINE}) = <<Len(out)>>

-----------------------------------------------------------------------------
\* Properties of the PDB reader and of the round trip

\* a numeric column holds exactly what the writer's conversion prints for its
\* value: the fixed-width form of a well-formed file
CanonInt(text, w) == IsIntText(text) /\ text = FmtD(IntVal(text), w)
CanonF3(text) == IsFloatText(text) /\ text = FmtF3(FloatVal(text))
CanonF2(text) == IsFloatText(text) /\ text = FmtF2(FloatVal(text))

WellFormedAtomLine(l) ==
    /\ Len(l) = 80
    /\ CanonInt(Slice(l, 6, 11), 5)
    /\ CanonInt(Slice(l, 22, 26), 4)
    /\ CanonF3(Slice(l, 30, 38))
    /\ CanonF3(Slice(l, 38, 46))
    /\ CanonF3(Slice(l, 46, 54))
    /\ CanonF2(Slice(l, 54, 60))
    /\ CanonF2(Slice(l, 60, 66))

\* a well-formed single-model file: at least one ATOM/HETATM record, every
\* one in the fixed-width form, and no MODEL record that starts a second model
WellFormedSingleModel(file) ==
    /\ AtomLinesOf(file) # <<>>
    /\ \A k \in 1..Len(file) : IsAtomLine(file[k]) => WellFormedAtomLine(file[k])
    /\ \A k \in 1..Len(file) :
          Tag(file[k]) = MODEL =>
              /\ IsIntText(Slice(file[k], 10, 14))
              /\ \A j \in 1..(k - 1) : ~IsAtomLine(file[j])

\* the coordinate, chain and residue number columns of two lines agree, and
\* the atom name columns agree up to their blanks
SameFields(l1, l2) ==
    /\ Slice(l1, 30, 54) = Slice(l2, 30, 54)
    /\ Ch(l1, 21) = Ch(l2, 21)
    /\ Slice(l1, 22, 26) = Slice(l2, 22, 26)
    /\ Strip(Slice(l1, 12, 16)) = Strip(Slice(l2, 12, 16))

C8_HandleReleased ==
    /\ pc \in {"parsed", "raised", "tofile", "model", "atom", "done"} => ~fopen
    /\ cpc \in {"returned", "raised"} => ~copen

\* the first alphabetic character of name is c
FirstAlphaIs(name, c) ==
    \E p \in 0..(Len(name) - 1) :
        /\ IsAlpha(Ch(name, p))
        /\ \A r \in 0..(p - 1) : ~IsAlpha(Ch(name, r))
        /\ c = Ch(name, p)

\* C9: for the k-th ATOM/HETATM line read, the stored element is the element
\* column stripped of its blanks when that is not empty, and otherwise the
\* first alphabetic character of the atom name
C9_ElementInferred ==
    \A k \in 1..Len(pdb.e) :
        LET l == AtomLinesOf(infile)[k]
            col == Strip(Slice(l, 76, 78))
        IN IF col = "" THEN FirstAlphaIs(Strip(Slice(l, 12, 16)), pdb.e[k])
           ELSE pdb.e[k] = col

\* what holds of the element: as C9 when the name has an alphabetic
\* character; the last character of the name when it has none
ElementFallback ==
    \A k \in 1..Len(pdb.e) :
        LET l == AtomLinesOf(infile)[k]
            col == Strip(Slice(l, 76, 78))
            name == Strip(Slice(l, 12, 16))
        IN IF col # "" THEN pdb.e[k] = col
           ELSE IF \E p \in 0..(Len(name) - 1) : IsAlpha(Ch(name, p))
                THEN FirstAlphaIs(name, pdb.e[k])
                ELSE pdb.e[k] = Slice(name, Len(name) - 1, Len(name))

-----------------------------------------------------------------------------
\* Structure

MaxStructs == 2
MaxOps == 4
MaxListLen == 3

StructIds == 1..MaxStructs

\* the paths and formats handed to fromfile and tofile
Paths == {"m.pdb", "m.ent", "m.cif", "m.xyz", "m.mmcif"}
OutTypes == {"pdb", "mmcif", "xyz"}

\* the atom lists the external readers return
FileAtoms == { << <<1, 0, 0>> >>, << <<1, 2, 0>>, <<0, -1, 1>> >> }
\* the arguments of rotate and translate
RotMats == { << <<0, -1, 0>>, <<1, 0, 0>>, <<0, 0, 1>> >>,
             << <<1, 0, 0>>, <<0, 0, -1>>, <<0, 1, 0>> >> }
TransVecs == { <<1, 0, 0>>, <<0, -2, 1>> }

\* the record of a call: its name and arguments, the exception it raised, the
\* reader fromfile called, rmsd's result, and the number of calls so far
NoCall == [op |-> "none", target |-> 0, other |-> 0, fid |-> "", outtype |-> "",
           err |-> "none", reader |-> "none", result |-> <<0, 1>>, n |-> 0]

Constructed(s) == structs[s].prot # 0
\* Structure.coor, as the list of atom positions
Coor(s) == prots[structs[s].prot]

\* fname[-3:]
Last3(fname) == SubSeq(fname, Max(1, Len(fname) - 2), Len(fname))

\* the text after the last "." of a path ("" when it has no ".")
RECURSIVE Extension(_)
Extension(path) ==
    IF Len(path) = 0 THEN ""
    ELSE IF DotPos(path) = Len(path) THEN ""
    ELSE LET rest == SubSeq(path, DotPos(path) + 2, Len(path)) IN
         IF DotPos(rest) = Len(rest) THEN rest ELSE Extension(rest)

\* the reader fromfile dispatches to, or "IOError"
Dispatch(fname) ==
    IF Last3(fname) \in {"pdb", "ent"} THEN "pdb"
    ELSE IF Last3(fname) = "cif" THEN "cif"
    ELSE "IOError"

\* Structure.fromfile(fid), fid a path; atoms is what the reader returns
FromFile(s, fid, atoms) ==
    /\ last.n < MaxOps
    /\ ~Constructed(s)
    /\ IF Dispatch(fid) = "IOError"
       THEN /\ last' = [NoCall EXCEPT !.op = "fromfile", !.target = s, !.fid = fid,
                                      !.err = "IOError", !.n = last.n + 1]
            /\ UNCHANGED <<structs, prots, disk>>
       ELSE /\ prots' = Append(prots, atoms)
            /\ structs' = [structs EXCEPT ![s] = [prot |-> Len(prots) + 1, origin |-> 0]]
            /\ last' = [NoCall EXCEPT !.op = "fromfile", !.target = s, !.fid = fid,
                                      !.reader = Dispatch(fid), !.n = last.n + 1]
            /\ UNCHANGED disk
    /\ UNCHANGED <<codecVars, cifVars>>

\* prot.copy(): a new atom list holding a copy of every atom
ProtCopy(atoms) == [k \in 1..Len(atoms) |-> atoms[k]]

\* mutant of DuplicateOf: "structure.prot = protdupe" is left out, so the
\* shallow copy keeps the handle of self
DuplicateSharingProt(st, pr, s, d) ==
    [structs |-> [st EXCEPT ![d] = [prot |-> st[s].prot, origin |-> s]],
     prots   |-> Append(pr, ProtCopy(pr[st[s].prot]))]

\* duplicate(): protdupe = self.__prot.copy(); structure = copy(self);
\* structure.prot = protdupe
DuplicateOf(st, pr, s, d) ==
    [structs |-> [st EXCEPT ![d] = [prot |-> Len(pr) + 1, origin |-> s]],
     prots   |-> Append(pr, ProtCopy(pr[st[s].prot]))]

Duplicate(s, d) ==
    /\ last.n < MaxOps
    /\ Constructed(s)
    /\ ~Constructed(d)
    /\ structs' = DuplicateOf(structs, prots, s, d).structs
    /\ prots' = DuplicateOf(structs, prots, s, d).prots
    /\ last' = [NoCall EXCEPT !.op = "duplicate", !.target = s, !.other = d,
                              !.n = last.n + 1]
    /\ UNCHANGED disk
    /\ UNCHANGED <<codecVars, cifVars>>

\* prot.matrix_transform(rotmat) on one atom
MatVec(m, p) ==
    << m[1][1] * p[1] + m[1][2] * p[2] + m[1][3] * p[3],
       m[2][1] * p[1] + m[2][2] * p[2] + m[2][3] * p[3],
       m[3][1] * p[1] + m[3][2] * p[2] + m[3][3] * p[3] >>

\* rotate(rotmat)
Rotate(s, rotmat) ==
    /\ last.n < MaxOps
    /\ Constructed(s)
    /\ prots' = [prots EXCEPT ![structs[s].prot] =
                    [k \in 1..Len(@) |-> MatVec(rotmat, @[k])]]
    /\ last' = [NoCall EXCEPT !.op = "rotate", !.target = s, !.n = last.n + 1]
    /\ UNCHANGED <<structs, disk>>
    /\ UNCHANGED <<codecVars, cifVars>>

\* translate(trans)
Translate(s, trans) ==
    /\ last.n < MaxOps
    /\ Constructed(s)
    /\ prots' = [prots EXCEPT ![structs[s].prot] =
                    [k \in 1..Len(@) |->
                        <<@[k][1] + trans[1], @[k][2] + trans[2], @[k][3] + trans[3]>>]]
    /\ last' = [NoCall EXCEPT !.op = "translate", !.target = s, !.n = last.n + 1]
    /\ UNCHANGED <<structs, disk>>
    /\ UNCHANGED <<codecVars, cifVars>>

\* combine(structure): prot.add_structure_instance(structure.prot)
Combine(s, o) ==
    /\ last.n < MaxOps
    /\ Constructed(s)
    /\ Constructed(o)
    /\ Len(Coor(s)) + Len(Coor(o)) <= MaxListLen
    /\ prots' = [prots EXCEPT ![structs[s].prot] = @ \o ProtCopy(Coor(o))]
    /\ last' = [NoCall EXCEPT !.op = "combine", !.target = s, !.other = o,
                              !.n = last.n + 1]
    /\ UNCHANGED <<structs, disk>>
    /\ UNCHANGED <<codecVars, cifVars>>

\* the sum over all atoms and axes of the squared coordinate differences;
\* a list of one atom is broadcast against the other list
RECURSIVE SumSq(_, _, _)
SumSq(a, b, k) ==
    IF k = 0 THEN 0
    ELSE LET p == a[IF Len(a) = 1 THEN 1 ELSE k]
             r == b[IF Len(b) = 1 THEN 1 ELSE k]
         IN (p[1] - r[1]) * (p[1] - r[1]) + (p[2] - r[2]) * (p[2] - r[2])
            + (p[3] - r[3]) * (p[3] - r[3]) + SumSq(a, b, k - 1)

\* mutant of RmsdSquared: the mean alone, without "* 3"
RmsdSquaredMeanOnly(a, b) ==
    LET n == Max(Len(a), Len(b)) IN <<SumSq(a, b, n), 3 * n>>

\* the argument of np.sqrt in rmsd, as the fraction <<numerator, denominator>>:
\* ((self.coor - structure.coor) ** 2).mean() * 3, the mean being taken over
\* the 3 * n entries of the difference array
RmsdSquared(a, b) ==
    LET n == Max(Len(a), Len(b))
        mean == <<SumSq(a, b, n), 3 * n>>
    IN <<mean[1] * 3, mean[2]>>

Broadcastable(a, b) == Len(a) = Len(b) \/ Len(a) = 1 \/ Len(b) = 1

\* rmsd(structure)
Rmsd(s, o) ==
    /\ last.n < MaxOps
    /\ Constructed(s)
    /\ Constructed(o)
    /\ last' = IF Broadcastable(Coor(s), Coor(o))
               THEN [NoCall EXCEPT !.op = "rmsd", !.target = s, !.other = o,
                                   !.result = RmsdSquared(Coor(s), Coor(o)),
                                   !.n = last.n + 1]
               ELSE [NoCall EXCEPT !.op = "rmsd", !.target = s, !.other = o,
                                   !.err = "ValueError", !.n = last.n + 1]
    /\ UNCHANGED <<structs, prots, disk>>
    /\ UNCHANGED <<codecVars, cifVars>>

\* mutant of Writer: every outtype but 'mmcif' is written as PDB
WriterDefaultsToPdb(outtype) ==
    IF outtype = "mmcif" THEN "write_to_mmcif" ELSE "write_to_PDB"

\* what Structure.tofile does with outtype: the writer it calls, or "IOError"
Writer(outtype) ==
    IF outtype = "pdb" THEN "write_to_PDB"
    ELSE IF outtype = "mmcif" THEN "write_to_mmcif"
    ELSE "IOError"

\* tofile(fid, outtype), fid a path
ToFile(s, fid, outtype) ==
    /\ last.n < MaxOps
    /\ Constructed(s)
    /\ IF Writer(outtype) = "IOError"
       THEN /\ last' = [NoCall EXCEPT !.op = "tofile", !.target = s, !.fid = fid,
                                      !.outtype = outtype,
                                      !.err = "IOError", !.n = last.n + 1]
            /\ UNCHANGED disk
       ELSE /\ disk' = disk \cup {fid}
            /\ last' = [NoCall EXCEPT !.op = "tofile", !.target = s, !.fid = fid,
                                      !.outtype = outtype, !.n = last.n + 1]
    /\ UNCHANGED <<structs, prots>>
    /\ UNCHANGED <<codecVars, cifVars>>

\* the state after Structure.fromfile('m.pdb') has constructed structure 1
InitStructure ==
    /\ \E atoms \in FileAtoms :
          /\ prots = <<atoms>>
          /\ structs = [s \in StructIds |->
                           IF s = 1 THEN [prot |-> 1, origin |-> 0]
                           ELSE [prot |-> 0, origin |-> 0]]
    /\ disk = {}
    /\ last = NoCall
    /\ IdleCodec /\ IdleCif

NextStructure ==
    \/ \E s \in StructIds, fid \in Paths, outtype \in OutTypes : ToFile(s, fid, outtype)
    \/ \E s \in StructIds, fid \in Paths, atoms \in FileAtoms : FromFile(s, fid, atoms)
    \/ \E s, d \in StructIds : Duplicate(s, d)
    \/ \E s \in StructIds, rotmat \in RotMats : Rotate(s, rotmat)
    \/ \E s \in StructIds, trans \in TransVecs : Translate(s, trans)
    \/ \E s, o \in StructIds : Combine(s, o)
    \/ \E s, o \in StructIds : Rmsd(s, o)

SpecStructure == InitStructure /\ [][NextStructure]_vars

-----------------------------------------------------------------------------
\* Properties of Structure

\* the sum over the atoms of the squared differences along one axis
RECURSIVE AxisSq(_, _, _, _)
AxisSq(a, b, axis, k) ==
    IF k = 0 THEN 0
    ELSE (a[k][axis] - b[k][axis]) * (a[k][axis] - b[k][axis]) + AxisSq(a, b, axis, k - 1)

TotalSq(a, b) ==
    AxisSq(a, b, 1, Len(a)) + AxisSq(a, b, 2, Len(a)) + AxisSq(a, b, 3, Len(a))

\* rmsd has just returned for two structures of the same atom count
RmsdReturned ==
    /\ last.op = "rmsd"
    /\ last.err = "none"
    /\ Len(Coor(last.target)) = Len(Coor(last.other))

\* C5 as stated: rmsd squared times 3 N equals the total sum of the squared
\* per-axis differences
C5_DividesBy3N ==
    RmsdReturned =>
        last.result[1] * 3 * Len(Coor(last.target))
            = TotalSq(Coor(last.target), Coor(last.other)) * last.result[2]

\* C5 amended: rmsd squared times N equals the total sum of the squared
\* per-axis differences (the mean over the 3 N entries is multiplied by 3
\* before the square root)
C5_DividesByN ==
    RmsdReturned =>
        last.result[1] * Len(Coor(last.target))
            = TotalSq(Coor(last.target), Coor(last.other)) * last.result[2]

\* C5 witness: rmsd of a structure of two atoms and its duplicate translated
\* by <<0, -2, 1>>: the argument of the square root is 30/6, which is
\* vx^2 + vy^2 + vz^2 = 5
C5_Witness ==
    /\ RmsdReturned
    /\ Len(Coor(last.target)) = 2
    /\ \A k \in 1..2 :
          Coor(last.other)[k] = << Coor(last.target)[k][1],
                                   Coor(last.target)[k][2] - 2,
                                   Coor(last.target)[k][3] + 1 >>
    /\ last.result = <<30, 6>>

\* d was made by s.duplicate()
DuplicateOfS(s, d) == Constructed(s) /\ Constructed(d) /\ structs[d].origin = s

Mutators == {"rotate", "translate", "combine"}

EndsWith(path, suffix) ==
    /\ Len(path) >= Len(suffix)
    /\ SubSeq(path, Len(path) - Len(suffix) + 1, Len(path)) = suffix

\* a failed tofile creates no file and changes no structure
FailedWriteChangesNothing ==
    (last'.op = "tofile" /\ last'.err = "IOError" /\ last'.n = last.n + 1) =>
        /\ disk' = disk
        /\ structs' = structs
        /\ prots' = prots

-----------------------------------------------------------------------------
\* parse_mmcif

MaxCifLines == 4

\* str.startswith(prefix)
StartsWith(line, prefix) ==
    Len(line) >= Len(prefix) /\ SubSeq(line, 1, Len(prefix)) = prefix

\* line.split('.')[1], for a line that holds a "."
SecondDotWord(line) ==
    LET rest == SubSeq(line, DotPos(line) + 2, Len(line)) IN Slice(rest, 0, DotPos(rest))

\* position (0-based) of the first blank of s, or Len(s) when there is none
RECURSIVE SpacePos(_)
SpacePos(s) ==
    IF Len(s) = 0 \/ Ch(s, 0) = " " THEN 0 ELSE 1 + SpacePos(SubSeq(s, 2, Len(s)))

\* line.split()
RECURSIVE Split(_)
Split(s) ==
    LET t == LStrip(s) IN
    IF t = "" THEN <<>>
    ELSE <<Slice(t, 0, SpacePos(t))>> \o Split(SubSeq(t, SpacePos(t) + 1, Len(t)))

Keys(d) == [k \in 1..Len(d) |-> d[k].key]

\* atom_site[key] = []: a new key goes last, an old key keeps its place
SetEmpty(d, key) ==
    IF \E k \in 1..Len(d) : d[k].key = key
    THEN [k \in 1..Len(d) |-> IF d[k].key = key THEN [key |-> key, val |-> <<>>] ELSE d[k]]
    ELSE Append(d, [key |-> key, val |-> <<>>])

\* for key, word in zip(atom_site, words): atom_site[key].append(word)
ZipAppend(d, words) ==
    [k \in 1..Len(d) |->
        IF k <= Len(words) THEN [key |-> d[k].key, val |-> Append(d[k].val, words[k])]
        ELSE d[k]]

\* one iteration of "for line in f"
CifLine ==
    /\ cpc = "scan"
    /\ cpos < Len(cif)
    /\ LET line == cif[cpos + 1] IN
       atom_site' = IF StartsWith(line, "_atom_site.")
                    THEN SetEmpty(atom_site, Strip(SecondDotWord(line)))
                    ELSE IF StartsWith(line, "ATOM")
                         THEN ZipAppend(atom_site, Split(line))
                         ELSE atom_site
    /\ cpos' = cpos + 1
    /\ UNCHANGED <<cif, copen, cpc>>
    /\ UNCHANGED <<codecVars, structVars>>

\* the loop is exhausted: the with block closes f; return atom_site
CifReturn ==
    /\ cpc = "scan"
    /\ cpos = Len(cif)
    /\ copen' = FALSE
    /\ cpc' = "returned"
    /\ UNCHANGED <<cif, cpos, atom_site>>
    /\ UNCHANGED <<codecVars, structVars>>

CifInputLines ==
    { "_atom_site.group_PDB", "_atom_site.id ", "_atom_site.type_symbol",
      "ATOM 1 N", "ATOM   2", "HETATM 3 O", "loop_" }

CifFiles == UNION {[1..n -> CifInputLines] : n \in 0..MaxCifLines}

InitCif ==
    /\ cif \in CifFiles
    /\ cpos = 0
    /\ copen = TRUE
    /\ atom_site = <<>>
    /\ cpc = "scan"
    /\ IdleCodec /\ IdleStructs

NextCif == CifLine \/ CifReturn

SpecCif == InitCif /\ [][NextCif]_vars

\* the declared column names, in the order of their first declaration
RECURSIVE Declared(_)
Declared(lines) ==
    IF lines = <<>> THEN <<>>
    ELSE LET before == Declared(SubSeq(lines, 1, Len(lines) - 1))
             l == lines[Len(lines)]
             name == Strip(SecondDotWord(l))
         IN IF StartsWith(l, "_atom_site.") /\ \A k \in 1..Len(before) : before[k] # name
            THEN Append(before, name) ELSE before

IsAtomRow(line) == StartsWith(line, "ATOM")
AtomRows(lines) == SelectSeq(lines, IsAtomRow)

\* C10: the mapping parse_mmcif returns has one entry per declared column, in
\* declaration order; every column list is as long as the number of lines
\* that start with ATOM; and the k-th token of the j-th such line is the j-th
\* item of the k-th column
C10_ColumnsAligned ==
    cpc = "returned" =>
        /\ Keys(atom_site) = Declared(cif)
        /\ \A k \in 1..Len(atom_site) :
              /\ Len(atom_site[k].val) = Len(AtomRows(cif))
              /\ \A j \in 1..Len(AtomRows(cif)) :
                    /\ k <= Len(Split(AtomRows(cif)[j]))
                    /\ atom_site[k].val[j] = Split(AtomRows(cif)[j])[k]

\* what holds of every input: one entry per declared column, in declaration
\* order, and no column longer than the number of ATOM lines
CifKeysDeclared ==
    cpc = "returned" =>
        /\ Keys(atom_site) = Declared(cif)
        /\ \A k \in 1..Len(atom_site) : Len(atom_site[k].val) <= Len(AtomRows(cif))

-----------------------------------------------------------------------------
\* The whole program: any of the four entry points

Init == InitWriter \/ InitRoundTrip \/ InitStructure \/ InitCif

Next == NextWriter \/ NextRoundTrip \/ NextStructure \/ NextCif

Spec == Init /\ [][Next]_vars

====
